---- MODULE Spec2Model ----
(***************************************************************************)
(* Bookmark ingestion and enrichment pipeline.                             *)
(*                                                                         *)
(*   HybridService.addBookmarks   services/hybrid      (ingestion)         *)
(*   scheduled                    index                (periodic sync)     *)
(*   handleQueue                  queue-consumer       (enrichment)        *)
(*                                                                         *)
(* The relational store (bookmarks, content_cache, podcast_episodes,       *)
(* sync_log), the blob stores and the queue transport are the shared       *)
(* state; every await of a handler that touches them is a step.            *)
(***************************************************************************)
EXTENDS Integers, Sequences, FiniteSets, TLC

(***************************************************************************)
(* Bounds of the model.                                                    *)
(***************************************************************************)
MaxInputs == 4          \* URLs given to addBookmarks in one behaviour (ingestion)
MaxSubmitted == 2       \* URLs given to addBookmarks in one behaviour (pipeline)
MaxSyntheticId == 2     \* Date.now() + jitter ranges over 1..MaxSyntheticId
MaxBatch == 2           \* largest batch the queue transport delivers
MaxSyncs == 1           \* scheduled sync cycles in one behaviour
MaxFaults == 1          \* store/blob faults injected into handleQueue in one behaviour
MaxBadLinks == 1        \* links whose extractor or AI calls fail
MaxBatches == 3         \* batches delivered in one behaviour
MaxSlashes == 2         \* slashes that trail the path of a URL given to normalizeUrl
MaxTextLen == 6         \* length of a text given to chunkText
MaxChunkSize == 4       \* size given to chunkText
MaxChunkOverlap == 4    \* overlap given to chunkText
MaxGrowth == 2          \* bookmarks added on the service between sync cycles
MaxCycles == 3          \* sync cycles in one behaviour (sync observed alone)
MaxManual == 2          \* manual syncs in one behaviour
MaxClock == 4           \* latest clock reading while fetchWithRateLimit runs

NULL == "null"

(***************************************************************************)
(* URL strings.  A string is represented by the parts the WHATWG parser    *)
(* and String.toLowerCase distinguish: whether it parses at all, whether   *)
(* it carries upper-case letters before the query, its scheme, explicit    *)
(* port, the name of its path, the number of slashes that trail the path,  *)
(* the text of its query and the text of its fragment.                     *)
(* Two records are equal exactly when the strings are equal.               *)
(***************************************************************************)
Str(valid, upper, scheme, port, name, slashes, query, frag) ==
    [valid |-> valid, upper |-> upper, scheme |-> scheme, port |-> port,
     name |-> name, slashes |-> slashes, query |-> query, frag |-> frag]

UPage       == Str(TRUE,  FALSE, "https", "",    "p", 0, "", "")  \* https://a.com/p
UPageSlash  == Str(TRUE,  FALSE, "https", "",    "p", 1, "", "")  \* https://a.com/p/
UOther      == Str(TRUE,  FALSE, "https", "",    "q", 0, "", "")  \* https://a.com/q
UGarbage    == Str(FALSE, TRUE,  "",      "",    "x", 0, "", "")  \* "Not A Url"

URemote     == Str(TRUE,  FALSE, "https", "",    "r", 0, "", "")  \* https://a.com/r

Urls == {UPage, UPageSlash, UOther, UGarbage}

\* the URLs submitted directly while the pipeline is observed
SubmittedUrls == {UPage}

\* every link a queue message can carry
Links == Urls \cup {URemote}

\* lower-case form of the text of a query or fragment
LowerText(t) == IF t = "x=A" THEN "x=a" ELSE IF t = "S" THEN "s" ELSE t

\* String.prototype.toLowerCase, applied to the whole string
toLowerCase(s) ==
    [s EXCEPT !.upper = FALSE, !.query = LowerText(@), !.frag = LowerText(@)]

DefaultPort(scheme) ==
    IF scheme = "http" THEN "80" ELSE IF scheme = "https" THEN "443" ELSE "none"

\* new URL(s) for a string that parses: the default port is dropped by the
\* parser and an empty path is the root path "/".
ParseUrl(s) ==
    [s EXCEPT !.port    = IF s.port = DefaultPort(s.scheme) THEN "" ELSE s.port,
              !.slashes = IF s.name = "" /\ s.slashes = 0 THEN 1 ELSE s.slashes]

\* parsed.pathname.endsWith('/') && parsed.pathname.length > 1
PathEndsWithSlash(p) ==
    IF p.name = "" THEN p.slashes >= 2 ELSE p.slashes >= 1

normalizeUrlLowercasesInvalid(url) ==
    IF ~url.valid
    THEN toLowerCase(url)
    ELSE LET parsed   == ParseUrl(toLowerCase(url))
             stripped == IF PathEndsWithSlash(parsed)
                         THEN [parsed EXCEPT !.slashes = parsed.slashes - 1]
                         ELSE parsed
         IN  IF stripped.port = DefaultPort(stripped.scheme)
             THEN [stripped EXCEPT !.port = ""]
             ELSE stripped

normalizeUrl(url) ==
    IF ~url.valid
    THEN url                                   \* catch: return the original
    ELSE LET parsed   == ParseUrl(toLowerCase(url))
             stripped == IF PathEndsWithSlash(parsed)
                         THEN [parsed EXCEPT !.slashes = parsed.slashes - 1]
                         ELSE parsed
             noPort   == IF \/ (stripped.scheme = "http"  /\ stripped.port = "80")
                            \/ (stripped.scheme = "https" /\ stripped.port = "443")
                         THEN [stripped EXCEPT !.port = ""]
                         ELSE stripped
         IN  noPort

(***************************************************************************)
(* Sequence helpers.                                                       *)
(***************************************************************************)
Range(s) == {s[i] : i \in 1..Len(s)}

SeqsUpTo(S, n) == UNION {[1..k -> S] : k \in 0..n}

Min(a, b) == IF a < b THEN a ELSE b

Max(a, b) == IF a > b THEN a ELSE b

\* Step 1 of addBookmarks: the Map normalized -> first original, read back
\* in insertion order.
RECURSIVE UniqueFrom(_, _, _)
UniqueFrom(urls, i, acc) ==
    IF i > Len(urls) THEN acc
    ELSE IF \E j \in 1..Len(acc) : normalizeUrl(acc[j]) = normalizeUrl(urls[i])
         THEN UniqueFrom(urls, i + 1, acc)
         ELSE UniqueFrom(urls, i + 1, Append(acc, urls[i]))

RECURSIVE UniqueRawFrom(_, _, _)
UniqueRawFrom(urls, i, acc) ==
    IF i > Len(urls) THEN acc
    ELSE IF \E j \in 1..Len(acc) : acc[j] = urls[i]
         THEN UniqueRawFrom(urls, i + 1, acc)
         ELSE UniqueRawFrom(urls, i + 1, Append(acc, urls[i]))

UniqueUrlsRaw(urls) == UniqueRawFrom(urls, 1, <<>>)

UniqueUrls(urls) == UniqueFrom(urls, 1, <<>>)

(***************************************************************************)
(* State.                                                                  *)
(***************************************************************************)
VARIABLES
    bookmarks,        \* table bookmarks: set of rows, raindropId unique
    contentCache,     \* table content_cache: set of rows, raindropId unique
    podcastEpisodes,  \* table podcast_episodes: set of rows, raindropId unique
    syncLog,          \* table sync_log: sequence of lastSyncedAt, by id
    htmlCache,        \* HTML_CACHE keys written
    podcastBucket,    \* PODCAST_BUCKET keys written
    vectors,          \* Vectorize ids upserted
    queue,            \* BOOKMARK_QUEUE: messages waiting for delivery
    add,              \* the addBookmarks call in progress / last returned
    hq,               \* the handleQueue invocation in progress / last returned
    fate,             \* how extractor and AI calls behave for each link
    finished,         \* messages that left the queue for good, with history
    counts,           \* calls made so far (bounds the behaviour)
    pure,             \* the call of a pure function under observation
    fetch,            \* the call of fetchWithRateLimit under observation
    remote,           \* what the bookmark service holds, as it lists it
    other             \* a second call of addBookmarks, running concurrently

vars == <<bookmarks, contentCache, podcastEpisodes, syncLog, htmlCache,
          podcastBucket, vectors, queue, add, hq, fate, finished, counts, pure, fetch,
          remote, other>>

storeVars == <<bookmarks, contentCache, podcastEpisodes, syncLog, htmlCache,
               podcastBucket, vectors>>

StoredUrls == {b.url : b \in bookmarks}
StoredIds  == {b.raindropId : b \in bookmarks}

SyntheticIds == 1..MaxSyntheticId

AddIdle ==
    [pc |-> "idle", urls |-> <<>>, uniqueUrls |-> <<>>, existingUrls |-> {},
     idx |-> 1, processed |-> <<>>, skipped |-> <<>>,
     result |-> [success |-> FALSE, processed |-> 0, skipped |-> 0, items |-> <<>>],
     \* history of the call, read by the properties only
     checkOk |-> TRUE, queried |-> FALSE, storedAtCheck |-> {},
     storedAtStart |-> {},
     idsAtStart |-> {}, tried |-> <<>>, sendTried |-> <<>>, sent |-> <<>>,
     threw |-> <<>>]

(***************************************************************************)
(* HybridService.addBookmarks                                              *)
(***************************************************************************)
\* Step 2: the batched existence query; a throwing query leaves the set empty.
ExistingUrlsFirstOnly(rows, uniqueUrls, ok) ==
    LET hit == {i \in 1..Len(uniqueUrls) : \E b \in rows : b.url = uniqueUrls[i]}
    IN  IF ok /\ hit # {}
        THEN {uniqueUrls[CHOOSE i \in hit : \A j \in hit : i <= j]}
        ELSE {}

ExistingUrlsFailClosed(rows, uniqueUrls, ok) ==
    IF ok THEN {b.url : b \in {r \in rows : r.url \in Range(uniqueUrls)}}
    ELSE Range(uniqueUrls)

ExistingUrls(rows, uniqueUrls, ok) ==
    IF ok THEN {b.url : b \in {r \in rows : r.url \in Range(uniqueUrls)}}
    ELSE {}

\* The catch of the per-URL try block falls through to the next iteration.
AbortAfterCatch(idx, n) == n + 1

ContinueAfterCatch(idx, n) == idx + 1

PlaceholderNormalized(id, url) ==
    [raindropId |-> id, url |-> normalizeUrl(url), title |-> <<"url", url>>,
     textContent |-> NULL, summary |-> NULL, coverImage |-> NULL]

Placeholder(id, url) ==
    [raindropId |-> id, url |-> url, title |-> <<"url", url>>,
     textContent |-> NULL, summary |-> NULL, coverImage |-> NULL]

AddMessagePageTitle(id, url) ==
    [raindropId |-> id, link |-> url, title |-> <<"page", url>>,
     created |-> "now", attempts |-> 1, origin |-> "add", trail |-> <<>>]

AddMessage(id, url) ==
    [raindropId |-> id, link |-> url, title |-> <<"url", url>>,
     created |-> "now", attempts |-> 1, origin |-> "add", trail |-> <<>>]

AddItem(id, url) == [id |-> id, link |-> url, title |-> <<"url", url>>]

\* return { success: true, processed: processed.length, skipped: ..., items }
AddResultCountsTried(a) ==
    [success |-> TRUE, processed |-> Len(a.tried),
     skipped |-> Len(a.skipped), items |-> a.processed]

AddResult(a) ==
    [success |-> TRUE, processed |-> Len(a.processed),
     skipped |-> Len(a.skipped), items |-> a.processed]

AddFinish(a) ==
    IF a.idx > Len(a.uniqueUrls)
    THEN [a EXCEPT !.pc = "done", !.result = AddResult(a)]
    ELSE a

\* if (uniqueUrls.length === 0) return ...: the existence query is issued
\* only for a non-empty candidate list.
QueryIssuedAlways(uniqueUrls) == TRUE

QueryIssued(uniqueUrls) == Len(uniqueUrls) # 0

\* Entry, step 1 and step 2 (up to the first await that can be observed).
\* a2 is the call after the step.
AddStartOf(a2, urls) ==
    LET uniqueUrls == UniqueUrls(urls)
       IN  IF ~QueryIssued(uniqueUrls)
           THEN a2 = [AddIdle EXCEPT !.pc = "done", !.urls = urls,
                                       !.idsAtStart = StoredIds,
                                       !.result = [success |-> TRUE, processed |-> 0,
                                                   skipped |-> 0, items |-> <<>>]]
           ELSE \E ok \in BOOLEAN :
                a2 = [AddIdle EXCEPT !.pc = "loop", !.urls = urls,
                                       !.uniqueUrls = uniqueUrls,
                                       !.existingUrls = ExistingUrls(bookmarks, uniqueUrls, ok),
                                       !.checkOk = ok, !.queried = TRUE,
                                       !.storedAtCheck = StoredUrls \cap Range(uniqueUrls),
                                       !.storedAtStart = StoredUrls \cap Range(urls),
                                       !.idsAtStart = StoredIds]

AddStart(urls, limit) ==
    /\ add.pc \in {"idle", "done"}
    /\ counts.given + Len(urls) <= limit
    /\ counts' = [counts EXCEPT !.given = @ + Len(urls)]
    /\ AddStartOf(add', urls)
    /\ UNCHANGED <<storeVars, queue, hq, fate, finished, pure, fetch, remote, other>>

\* db.insert(bookmarks) throws when the store fails or when raindrop_id,
\* which is unique, is already taken.
InsertThrowsOnFaultOnly(outcome, syntheticId, ids) == outcome = "insert"

InsertThrows(outcome, syntheticId, ids) ==
    outcome = "insert" \/ syntheticId \in ids

\* One iteration of step 3.  outcome: "ok", or the await that throws.
\* a is the call before the step and a2 the call after it.
AddUrlOf(a, a2) ==
    /\ a.pc = "loop"
    /\ LET url == a.uniqueUrls[a.idx]
           n   == Len(a.uniqueUrls)
       IN  IF url \in a.existingUrls
           THEN /\ a2 = AddFinish([a EXCEPT !.skipped = Append(@, url),
                                                !.idx = @ + 1])
                /\ UNCHANGED <<bookmarks, queue>>
           ELSE \E syntheticId \in SyntheticIds, outcome \in {"ok", "insert", "send"} :
                IF InsertThrows(outcome, syntheticId, StoredIds)
                THEN \* the insert throws (store failure or unique raindrop_id)
                     /\ a2 = AddFinish([a EXCEPT !.tried = Append(@, url),
                                                     !.threw = Append(@, url),
                                                     !.idx = ContinueAfterCatch(a.idx, n)])
                     /\ UNCHANGED <<bookmarks, queue>>
                ELSE IF outcome = "send"
                THEN \* the row is inserted, BOOKMARK_QUEUE.send throws
                     /\ bookmarks' = bookmarks \cup {Placeholder(syntheticId, url)}
                     /\ a2 = AddFinish([a EXCEPT !.tried = Append(@, url),
                                                     !.sendTried = Append(@, url),
                                                     !.threw = Append(@, url),
                                                     !.idx = ContinueAfterCatch(a.idx, n)])
                     /\ UNCHANGED queue
                ELSE /\ bookmarks' = bookmarks \cup {Placeholder(syntheticId, url)}
                     /\ queue' = Append(queue, AddMessage(syntheticId, url))
                     /\ a2 = AddFinish([a EXCEPT
                                   !.tried = Append(@, url),
                                   !.sendTried = Append(@, url),
                                   !.sent = Append(@, AddMessage(syntheticId, url)),
                                   !.processed = Append(@, AddItem(syntheticId, url)),
                                   !.idx = @ + 1])

AddUrl ==
    /\ AddUrlOf(add, add')
    /\ UNCHANGED <<contentCache, podcastEpisodes, syncLog, htmlCache,
                   podcastBucket, vectors, hq, fate, finished, counts, pure, fetch, remote, other>>

(***************************************************************************)
(* handleQueue                                                             *)
(***************************************************************************)
MAX_QUEUE_ATTEMPTS == 3

\* The awaits of one message's try block, in program order.
PipelineSummarizesFirst ==
    <<"extract", "htmlPut", "summarize", "bookmarkUpsert", "cacheUpsert",
      "screenshot", "summaryUpdate", "embed", "vectorUpsert", "script",
      "synthesize", "audioPut", "podcastUpsert">>

Pipeline ==
    <<"extract", "htmlPut", "bookmarkUpsert", "cacheUpsert", "screenshot",
      "summarize", "summaryUpdate", "embed", "vectorUpsert", "script",
      "synthesize", "audioPut", "podcastUpsert">>

\* Calls to the extractor and the AI models; their behaviour for a link is
\* the link's fate.
ExternalOps == {"extract", "summarize", "embed", "synthesize"}

\* Writes to the relational store, the blob stores and the vector index;
\* each may throw on any delivery.
InfraOps == {"htmlPut", "bookmarkUpsert", "cacheUpsert", "summaryUpdate",
             "vectorUpsert", "audioPut", "podcastUpsert"}

OpIndex(op) == CHOOSE k \in 1..Len(Pipeline) : Pipeline[k] = op

FateUnknown == [kind |-> "unknown", stage |-> "none", fired |-> FALSE]

FateChoices ==
    {[kind |-> "ok", stage |-> "none", fired |-> FALSE]}
    \cup {[kind |-> k, stage |-> st, fired |-> FALSE] :
             k \in {"always", "once"}, st \in ExternalOps}

\* The fates a link met for the first time can have.
FateChoicesNow ==
    IF Cardinality({l \in Links : fate[l].kind \in {"always", "once"}}) < MaxBadLinks
    THEN FateChoices
    ELSE {f \in FateChoices : f.kind = "ok"}

\* The external call that throws when the link is processed now.
FateOp(f) ==
    IF f.kind = "always" \/ (f.kind = "once" /\ ~f.fired) THEN f.stage ELSE "none"

\* function chunkText(text, size = 1200, overlap = 200)
DefaultChunkSize == 1200
DefaultChunkOverlap == 200

\* chunkText at its entry; a text is represented by its length and a chunk
\* by the offsets of the slice
ChunkStart(len, size, overlap) ==
    [fn |-> "chunkText", pc |-> "loop", len |-> len, size |-> size,
     overlap |-> overlap, start |-> 0, chunks |-> <<>>]

\* if (nextStart <= start || nextStart >= text.length) break;
ChunkContinuesUnguarded(nextStart, start, len) == TRUE

ChunkContinues(nextStart, start, len) == ~(nextStart <= start \/ nextStart >= len)

\* the loop test and one iteration of the while loop
ChunkIter(c) ==
    IF ~(c.start < c.len)
    THEN [c EXCEPT !.pc = "returned"]
    ELSE LET end       == Min(c.len, c.start + c.size)
             nextStart == Max(end - c.overlap, 0)
             pushed    == Append(c.chunks, [start |-> c.start, end |-> end])
         IN  IF ChunkContinues(nextStart, c.start, c.len)
             THEN [c EXCEPT !.chunks = pushed, !.start = nextStart]
             ELSE [c EXCEPT !.chunks = pushed, !.pc = "returned"]

RECURSIVE ChunkRun(_)
ChunkRun(c) == IF c.pc = "returned" THEN c.chunks ELSE ChunkRun(ChunkIter(c))

chunkText(len, size, overlap) == ChunkRun(ChunkStart(len, size, overlap))

\* length of the text extracted from the page behind the link
TextLength(link) == IF link.name = "p" THEN 1100 ELSE 150

\* Number of chunks chunkText cuts the extracted text of the page into.
PageChunks(link) ==
    Len(chunkText(TextLength(link), DefaultChunkSize, DefaultChunkOverlap))

Stores ==
    [bookmarks |-> bookmarks, contentCache |-> contentCache,
     podcastEpisodes |-> podcastEpisodes, htmlCache |-> htmlCache,
     podcastBucket |-> podcastBucket, vectors |-> vectors]

\* insert(bookmarks) ... onConflictDoUpdate(target: raindropId)
UpsertBookmarkInsertsAlways(rows, m) ==
    rows \cup {[raindropId |-> m.raindropId, url |-> m.link,
                title |-> <<"page", m.link>>, textContent |-> "text",
                summary |-> NULL, coverImage |-> NULL]}

UpsertBookmark(rows, m) ==
    IF \E b \in rows : b.raindropId = m.raindropId
    THEN {IF b.raindropId = m.raindropId
          THEN [b EXCEPT !.title = <<"page", m.link>>, !.url = m.link,
                         !.textContent = "text"]
          ELSE b : b \in rows}
    ELSE rows \cup {[raindropId |-> m.raindropId, url |-> m.link,
                     title |-> <<"page", m.link>>, textContent |-> "text",
                     summary |-> NULL, coverImage |-> NULL]}

\* insert(contentCache) ... onConflictDoUpdate; set is the columns updated
UpsertCacheInsertOnly(rows, id, error, setsKey) ==
    IF \E c \in rows : c.raindropId = id
    THEN rows
    ELSE rows \cup {[raindropId |-> id, htmlKvKey |-> <<"html", id>>,
                     error |-> error]}

UpsertCache(rows, id, error, setsKey) ==
    IF \E c \in rows : c.raindropId = id
    THEN {IF c.raindropId = id
          THEN [c EXCEPT !.error = error,
                         !.htmlKvKey = IF setsKey THEN <<"html", id>> ELSE @]
          ELSE c : c \in rows}
    ELSE rows \cup {[raindropId |-> id, htmlKvKey |-> <<"html", id>>,
                     error |-> error]}

UpsertPodcast(rows, id, script) ==
    {p \in rows : p.raindropId # id}
    \cup {[raindropId |-> id, audioKey |-> <<"podcast", id>>, script |-> script]}

\* db.update(bookmarks).set(...).where(eq(raindropId))
UpdateBookmark(rows, id, field, value) ==
    {IF b.raindropId = id THEN [b EXCEPT ![field] = value] ELSE b : b \in rows}

\* What leaves the inner try block of the screenshot step when no image URL
\* was produced: its catch logs a warning and swallows the error.
ScreenshotEscapes(shot) == IF shot THEN "none" ELSE "screenshot"

ScreenshotThrow(shot) == "none"

\* let script = summary.podcast_script; if (!script) script =
\* (await generatePodcastScript(...)).script
ScriptAlwaysGenerated(hasScript) == "fallback"

ScriptUsed(hasScript) == IF hasScript THEN "agent" ELSE "fallback"

\* embeddings.map((values, index) => ({ id: `${raindropId}:${index}`,
\* metadata: { raindrop_id: raindropId, chunk: index } })) for n embeddings,
\* one per chunk; <<id, k>> is the vector with that id and that metadata
VectorIdsOneBased(id, n) == {<<id, k>> : k \in 1..n}

VectorIds(id, n) == {<<id, k>> : k \in 0..(n - 1)}

\* The effect of one await of the try block that completes.
\* opt.shot: a screenshot URL was produced; opt.hasScript: the summary
\* carries a podcast script.
ApplyOp(op, S, m, opt) ==
    LET id == m.raindropId IN
    CASE op = "htmlPut" ->
           [S EXCEPT !.htmlCache = @ \cup {<<"html", id>>}]
      [] op = "bookmarkUpsert" ->
           [S EXCEPT !.bookmarks = UpsertBookmark(@, m)]
      [] op = "cacheUpsert" ->
           [S EXCEPT !.contentCache = UpsertCache(@, id, NULL, TRUE)]
      [] op = "screenshot" ->
           IF opt.shot
           THEN [S EXCEPT !.bookmarks = UpdateBookmark(@, id, "coverImage", "image")]
           ELSE S
      [] op = "summaryUpdate" ->
           [S EXCEPT !.bookmarks = UpdateBookmark(@, id, "summary", "summary")]
      [] op = "vectorUpsert" ->
           [S EXCEPT !.vectors = @ \cup VectorIds(id, PageChunks(m.link))]
      [] op = "audioPut" ->
           [S EXCEPT !.podcastBucket = @ \cup {<<"podcast", id>>}]
      [] op = "podcastUpsert" ->
           [S EXCEPT !.podcastEpisodes =
                UpsertPodcast(@, id, ScriptUsed(opt.hasScript))]
      [] OTHER -> S

RECURSIVE RunOps(_, _, _, _, _)
RunOps(k, last, S, m, opt) ==
    IF k > last THEN S
    ELSE RunOps(k + 1, last, ApplyOp(Pipeline[k], S, m, opt), m, opt)

\* The first await that throws, given the store fault of this delivery and
\* the fate of the link; "none" when the try block runs to message.ack().
FirstThrow(infra, fateOp) ==
    IF infra = "none" THEN fateOp
    ELSE IF fateOp = "none" THEN infra
    ELSE IF OpIndex(infra) < OpIndex(fateOp) THEN infra ELSE fateOp

\* if (message.attempts < MAX_QUEUE_ATTEMPTS) retry() else ack()
MarkAfterFailureAlwaysRetry(attempts) == "retry"

MarkAfterFailure(attempts) ==
    IF attempts < MAX_QUEUE_ATTEMPTS THEN "retry" ELSE "ack"

\* The silent skip of the batch idempotency check.
SilentSkipNever(existingUrls, link) == FALSE

SilentSkip(existingUrls, link) == link \in existingUrls

HqIdle ==
    [pc |-> "idle", batch |-> <<>>, existingUrls |-> {}, checkOk |-> TRUE,
     i |-> 1, entries |-> <<>>, storedAtStart |-> {}]

\* shot: how the screenshot step ended ("saved", "failed"); summaryScript:
\* whether the summary carried a podcast script ("yes", "no"); script: the
\* script handed to synthesizeAudio; each "none" when the step was not
\* reached.
Entry(existed, checkOk, ops, threw, mark) ==
    [existed |-> existed, checkOk |-> checkOk, ops |-> ops, threw |-> threw,
     mark |-> mark, shot |-> "none", summaryScript |-> "none", script |-> "none"]

\* The entry of a message whose try block issued the awaits ops.
Observed(e, opt) ==
    [e EXCEPT
       !.shot = IF "screenshot" \in Range(e.ops)
                THEN (IF opt.shot THEN "saved" ELSE "failed") ELSE "none",
       !.summaryScript = IF "script" \in Range(e.ops)
                         THEN (IF opt.hasScript THEN "yes" ELSE "no") ELSE "none",
       !.script = IF "script" \in Range(e.ops)
                  THEN ScriptUsed(opt.hasScript) ELSE "none"]

\* What the queue transport does with the batch once the handler has
\* returned or thrown: an acked message is gone, a retried one is delivered
\* again with attempts + 1, and a message the handler left unmarked is
\* acked when the handler returned and retried when it threw.
EntryOf(h, k) ==
    IF k <= Len(h.entries) THEN h.entries[k]
    ELSE Entry(h.batch[k].link \in h.storedAtStart, h.checkOk, <<>>, "none", "none")

Settled(h, k, raised) ==
    LET e == EntryOf(h, k)
        m == h.batch[k]
        final == IF e.mark = "none" THEN (IF raised THEN "retry" ELSE "ack")
                 ELSE e.mark
    IN  [msg |-> [m EXCEPT !.trail = Append(@, e)], final |-> final]

RECURSIVE Requeued(_, _, _)
Requeued(h, k, raised) ==
    IF k > Len(h.batch) THEN <<>>
    ELSE LET s == Settled(h, k, raised)
         IN  (IF s.final = "retry"
              THEN <<[s.msg EXCEPT !.attempts = @ + 1]>>
              ELSE <<>>) \o Requeued(h, k + 1, raised)

Acked(h, raised) ==
    {Settled(h, k, raised).msg :
        k \in {j \in 1..Len(h.batch) : Settled(h, j, raised).final = "ack"}}

\* Delivery of a batch, and step 1: the batch idempotency check.
HQStart ==
    /\ hq.pc # "loop"
    /\ Len(queue) > 0
    /\ counts.batches < MaxBatches
    /\ \E n \in 1..Min(MaxBatch, Len(queue)), ok \in BOOLEAN :
         LET batch == SubSeq(queue, 1, n)
             urls  == {batch[k].link : k \in 1..n}
         IN  /\ ~ok => counts.faults < MaxFaults
             /\ counts' = [counts EXCEPT !.batches = @ + 1,
                                         !.faults = IF ok THEN @ ELSE @ + 1]
             /\ queue' = SubSeq(queue, n + 1, Len(queue))
             /\ hq' = [HqIdle EXCEPT !.pc = "loop", !.batch = batch,
                                     !.existingUrls = IF ok THEN StoredUrls \cap urls ELSE {},
                                     !.checkOk = ok,
                                     !.storedAtStart = StoredUrls \cap urls]
    /\ UNCHANGED <<storeVars, add, fate, finished, pure, fetch, remote, other>>

\* The handler is over (returned or threw): the transport settles the batch.
HQSettle(h, raised) ==
    /\ queue' = queue \o Requeued(h, 1, raised)
    /\ finished' = finished \cup Acked(h, raised)
    /\ hq' = [h EXCEPT !.pc = IF raised THEN "raised" ELSE "returned"]

HQAdvance(h) ==
    IF h.i > Len(h.batch)
    THEN HQSettle(h, FALSE)
    ELSE /\ hq' = h
         /\ UNCHANGED <<queue, finished>>

SetStores(S) ==
    /\ bookmarks' = S.bookmarks
    /\ contentCache' = S.contentCache
    /\ podcastEpisodes' = S.podcastEpisodes
    /\ htmlCache' = S.htmlCache
    /\ podcastBucket' = S.podcastBucket
    /\ vectors' = S.vectors

\* The try block of one message and its catch.  infra: the store or blob
\* write that throws on this delivery; known: the fate of the link;
\* handlerOk: the upsert of the catch block completes.
Process(m, existed, infra, opt, handlerOk, known) ==
    LET fate0 == [fate EXCEPT ![m.link] = known]
        threw == FirstThrow(ScreenshotThrow(opt.shot),
                            FirstThrow(infra, FateOp(known)))
        last  == IF threw = "none" THEN Len(Pipeline) ELSE OpIndex(threw) - 1
        S1    == RunOps(1, last, Stores, m, opt)
        ran   == SubSeq(Pipeline, 1, IF threw = "none" THEN last ELSE last + 1)
        fate1 == IF threw = known.stage
                 THEN [fate0 EXCEPT ![m.link].fired = TRUE] ELSE fate0
    IN  /\ fate' = fate1
        /\ IF threw = "none"
           THEN \* message.ack()
                /\ SetStores(S1)
                /\ HQAdvance([hq EXCEPT
                      !.entries = Append(@, Observed(Entry(existed, hq.checkOk, ran,
                                                           "none", "ack"), opt)),
                      !.i = @ + 1])
           ELSE IF handlerOk
           THEN \* catch: record the error, then retry or drop
                /\ SetStores([S1 EXCEPT !.contentCache =
                                 UpsertCache(@, m.raindropId, threw, FALSE)])
                /\ HQAdvance([hq EXCEPT
                      !.entries = Append(@, Observed(Entry(existed, hq.checkOk,
                                            Append(ran, "errorUpsert"), threw,
                                            MarkAfterFailure(m.attempts)), opt)),
                      !.i = @ + 1])
           ELSE \* the upsert of the catch block throws: handleQueue rejects
                /\ SetStores(S1)
                /\ HQSettle([hq EXCEPT
                      !.entries = Append(@, Observed(Entry(existed, hq.checkOk,
                                            Append(ran, "errorUpsert"), threw,
                                            "none"), opt))], TRUE)

\* One iteration of the for loop over batch.messages.
HQMessage ==
    /\ hq.pc = "loop"
    /\ LET m == hq.batch[hq.i]
           existed == m.link \in hq.storedAtStart
       IN  IF SilentSkip(hq.existingUrls, m.link)
           THEN /\ HQAdvance([hq EXCEPT
                       !.entries = Append(@, Entry(existed, hq.checkOk, <<>>, "none", "ack")),
                       !.i = @ + 1])
                /\ UNCHANGED <<storeVars, fate, counts>>
           ELSE \E infra \in InfraOps \cup {"none"}, shot \in BOOLEAN,
                   hasScript \in BOOLEAN, handlerOk \in BOOLEAN,
                   known \in (IF fate[m.link].kind = "unknown"
                              THEN FateChoicesNow ELSE {fate[m.link]}) :
                LET nFaults == (IF infra = "none" THEN 0 ELSE 1)
                               + (IF handlerOk THEN 0 ELSE 1)
                IN  /\ counts.faults + nFaults <= MaxFaults
                    /\ counts' = [counts EXCEPT !.faults = @ + nFaults]
                    /\ Process(m, existed, infra,
                               [shot |-> shot, hasScript |-> hasScript],
                               handlerOk, known)
                    /\ UNCHANGED syncLog
    /\ UNCHANGED <<add, pure, fetch, remote, other>>

(***************************************************************************)
(* scheduled: one periodic sync cycle                                      *)
(***************************************************************************)
MAX_QUEUE_ITEMS == 10

\* Item k of the bookmark service, in the order of creation.
RemoteLink(k) ==
    IF k = 1 THEN URemote
    ELSE IF k = 2 THEN UPage
    ELSE Str(TRUE, FALSE, "https", "", "r" \o ToString(k), 0, "", "")

RemoteItem(k) ==
    [_id |-> 100 + k, link |-> RemoteLink(k), title |-> <<"remote", RemoteLink(k)>>,
     created |-> <<"t", k>>]

\* The first n items, as the service lists them (sort=-created).
ListedItems(n) == [j \in 1..n |-> RemoteItem(n + 1 - j)]

\* What the bookmark service holds while the pipeline is observed.
RemoteItems == ListedItems(2)

\* An ISO timestamp <<"t", k>> is later than <<"t", j>> when k > j.
Undefined == <<"undefined", 0>>

TsRank(ts) == ts[2]

\* getLastSync: lastSyncedAt of the row with the greatest id
getLastSyncFirstRow(log) == IF Len(log) = 0 THEN Undefined ELSE log[1]

getLastSync(log) == IF Len(log) = 0 THEN Undefined ELSE log[Len(log)]

\* client.listBookmarks(lastSync): the service filters on created > since
listBookmarks(since) ==
    SelectSeq(remote, LAMBDA it : TsRank(it.created) > TsRank(since))

\* items.filter(item => !existingSet.has(item.link))
ValidItemsUnfiltered(items, stored) == items

ValidItems(items, stored) == SelectSeq(items, LAMBDA it : it.link \notin stored)

\* validItems.slice(0, MAX_QUEUE_ITEMS)
TruncateNothing(validItems) == validItems

Truncate(validItems) ==
    SubSeq(validItems, 1, Min(MAX_QUEUE_ITEMS, Len(validItems)))

SyncMessage(item) ==
    [raindropId |-> item._id, link |-> item.link, title |-> item.title,
     created |-> item.created, attempts |-> 1, origin |-> "sync", trail |-> <<>>]

RECURSIVE MapSync(_)
MapSync(items) ==
    IF Len(items) = 0 THEN <<>>
    ELSE <<SyncMessage(Head(items))>> \o MapSync(Tail(items))

\* if (items.length > 0) await setLastSync(env, items[0].created)
CheckpointEvenIfEmpty(log, items) ==
    Append(log, IF Len(items) > 0 THEN items[1].created ELSE Undefined)

Checkpoint(log, items) ==
    IF Len(items) > 0 THEN Append(log, items[1].created) ELSE log

\* The await of the cycle that throws: the existence query is issued only
\* for a non-empty poll, a send only for a non-empty list, setLastSync only
\* for a non-empty poll.
Thrown(stop, items, queueItems) ==
    IF stop = "poll" THEN "poll"
    ELSE IF stop = "none" \/ Len(items) = 0 THEN "none"
    ELSE IF stop = "send" /\ Len(queueItems) = 0 THEN "none"
    ELSE stop

\* The whole handler.  stop names the await that throws ("none": the cycle
\* completes); when a send throws, sentOk sends completed before it.
ScheduledUpTo(limit) ==
    /\ counts.syncs < limit
    /\ \E stop \in {"none", "poll", "query", "send", "setLastSync"} :
         LET items      == listBookmarks(getLastSync(syncLog))
             validItems == ValidItems(items, StoredUrls)
             queueItems == MapSync(Truncate(validItems))
             queried    == stop # "poll" /\ Len(items) > 0
             threw      == Thrown(stop, items, queueItems)
         IN  /\ counts' = [counts EXCEPT !.syncs = @ + 1,
                                         !.queries = IF queried THEN @ + 1 ELSE @,
                                         !.threw = threw]
             /\ IF threw \in {"poll", "query"}
                THEN UNCHANGED <<queue, syncLog>>
                ELSE IF threw = "send"
                THEN /\ \E sentOk \in 0..(Len(queueItems) - 1) :
                          queue' = queue \o SubSeq(queueItems, 1, sentOk)
                     /\ UNCHANGED syncLog
                ELSE /\ queue' = queue \o queueItems
                     /\ syncLog' = IF threw = "setLastSync" THEN syncLog
                                   ELSE Checkpoint(syncLog, items)
    /\ UNCHANGED <<bookmarks, contentCache, podcastEpisodes, htmlCache,
                   podcastBucket, vectors, add, hq, fate, finished, pure, fetch, remote, other>>

Scheduled == ScheduledUpTo(MaxSyncs)

(***************************************************************************)
(* The system.                                                             *)
(***************************************************************************)
InitStores ==
    /\ bookmarks = {}
    /\ contentCache = {}
    /\ podcastEpisodes = {}
    /\ syncLog = <<>>
    /\ htmlCache = {}
    /\ podcastBucket = {}
    /\ vectors = {}
    /\ queue = <<>>
    /\ add = AddIdle
    /\ other = AddIdle
    /\ hq = HqIdle
    /\ fate = [l \in Links |-> FateUnknown]
    /\ finished = {}
    /\ counts = [given |-> 0, syncs |-> 0, batches |-> 0, faults |-> 0,
                 queries |-> 0, grown |-> 0, manual |-> 0, threw |-> "none"]

PureIdle == [fn |-> "none"]

FetchIdle == [pc |-> "idle"]

\* everything but the pure function under observation
InitSystem == InitStores /\ fetch = FetchIdle /\ remote = RemoteItems

Init == InitSystem /\ pure = PureIdle

\* addBookmarks called with any input sequence
AddBookmarks == \E urls \in SeqsUpTo(Urls, MaxInputs) : AddStart(urls, MaxInputs)

\* addBookmarks called while the pipeline runs
Submit == \E urls \in SeqsUpTo(SubmittedUrls, MaxSubmitted) : AddStart(urls, MaxSubmitted)

Next ==
    \/ Submit
    \/ AddUrl
    \/ Scheduled
    \/ HQStart
    \/ HQMessage

Spec == Init /\ [][Next]_vars

\* Ingestion alone: addBookmarks called with arbitrary input sequences.
NextIngest ==
    \/ AddBookmarks
    \/ AddUrl

SpecIngest == Init /\ [][NextIngest]_vars

\* The pipeline fed by the periodic sync.
NextSync ==
    \/ Scheduled
    \/ HQStart
    \/ HQMessage

SpecSync == Init /\ [][NextSync]_vars

\* The pipeline fed by direct submission.
NextSubmit ==
    \/ Submit
    \/ AddUrl
    \/ HQStart
    \/ HQMessage

SpecSubmit == Init /\ [][NextSubmit]_vars

(***************************************************************************)
(* Properties of addBookmarks (checked under SpecIngest).                  *)
(***************************************************************************)
AddDone == add.pc = "done"

ItemLinks == {add.result.items[k].link : k \in 1..Len(add.result.items)}

\* rows the call in progress / last returned has inserted
InsertedByCall == {b \in bookmarks : b.raindropId \notin add.idsAtStart}

\* messages of the queue that carry one of the ids the call inserted
QueuedByCall ==
    {k \in 1..Len(queue) : queue[k].origin = "add"
                           /\ queue[k].raindropId \notin add.idsAtStart}

FirstSeen(n) ==
    add.urls[CHOOSE i \in 1..Len(add.urls) :
                /\ normalizeUrl(add.urls[i]) = n
                /\ \A j \in 1..(i - 1) : normalizeUrl(add.urls[j]) # n]

\* C1: in every returned call, the inputs that share one normalized form
\* have produced at most one queue message and at most one entry of items;
\* when the first-seen string of that form was not stored and neither its
\* insert nor its send threw, they have produced exactly one message and
\* one entry of items, and processed is the length of items.
C1_OneMessagePerNormalizedUrl ==
    AddDone =>
      /\ add.result.processed = Len(add.result.items)
      /\ Len(add.sent) = Cardinality(QueuedByCall)
      /\ \A i \in 1..Len(add.urls) :
           LET n     == normalizeUrl(add.urls[i])
               msgs  == {k \in QueuedByCall : normalizeUrl(queue[k].link) = n}
               items == {k \in 1..Len(add.result.items) :
                            normalizeUrl(add.result.items[k].link) = n}
           IN  /\ Cardinality(msgs) <= 1
               /\ Cardinality(items) <= 1
               /\ (FirstSeen(n) \notin add.storedAtCheck
                   /\ FirstSeen(n) \notin Range(add.threw))
                  => (Cardinality(msgs) = 1 /\ Cardinality(items) = 1)

C1_Witness ==
    /\ AddDone
    /\ \E i, j \in 1..Len(add.urls) :
         /\ i < j
         /\ add.urls[i] # add.urls[j]
         /\ normalizeUrl(add.urls[i]) = normalizeUrl(add.urls[j])
         /\ add.urls[i] \in ItemLinks
    /\ add.result.processed = 1
    /\ Cardinality(QueuedByCall) = 1

\* C6 (as claimed): in every returned call whose existence query succeeded,
\* every input string that was the url of a stored row when the query ran is
\* counted in skipped, is not in items, has had no row inserted and no
\* message sent for it.
C6_StoredUrlIsSkipped ==
    (AddDone /\ add.queried /\ add.checkOk) =>
      LET stored == {i \in 1..Len(add.urls) : add.urls[i] \in add.storedAtStart}
      IN  /\ \A i \in stored :
               /\ add.urls[i] \in Range(add.skipped)
               /\ add.urls[i] \notin ItemLinks
               /\ \A b \in InsertedByCall : b.url # add.urls[i]
               /\ \A k \in QueuedByCall : queue[k].link # add.urls[i]
          /\ add.result.skipped = Cardinality({add.urls[i] : i \in stored})

\* C9: in every returned call whose existence query threw, success is true,
\* nothing is skipped, and the insert has been issued for every first-seen
\* input URL, followed by the send unless the insert threw.
C9_CheckFailureProcessesAll ==
    (AddDone /\ add.queried /\ ~add.checkOk) =>
      /\ add.result.success
      /\ add.result.skipped = 0
      /\ add.skipped = <<>>
      /\ add.tried = add.uniqueUrls
      /\ add.uniqueUrls = UniqueFrom(add.urls, 1, <<>>)
      /\ \A u \in Range(add.uniqueUrls) :
           u \in Range(add.sendTried) \/ u \in Range(add.threw)

C9_Witness ==
    /\ AddDone /\ add.queried /\ ~add.checkOk
    /\ Len(add.uniqueUrls) >= 2
    /\ add.uniqueUrls[1] \in add.storedAtCheck
    /\ add.result.processed >= 1

\* C10: in every returned call, a URL whose insert or send threw is not in
\* items and not counted in processed, every URL after it has been skipped
\* or attempted, and success is true.
C10_FailureDoesNotAbort ==
    AddDone =>
      /\ add.result.success
      /\ add.result.processed =
            Cardinality({u \in Range(add.tried) : u \notin Range(add.threw)})
      /\ \A k \in 1..Len(add.uniqueUrls) :
           add.uniqueUrls[k] \in Range(add.threw) =>
             /\ add.uniqueUrls[k] \notin ItemLinks
             /\ \A j \in (k + 1)..Len(add.uniqueUrls) :
                  add.uniqueUrls[j] \in Range(add.skipped) \cup Range(add.tried)

C10_Witness ==
    /\ AddDone
    /\ Len(add.uniqueUrls) >= 2
    /\ add.uniqueUrls[1] \in Range(add.threw)
    /\ add.uniqueUrls[2] \in ItemLinks
    /\ add.result.processed = 1

(***************************************************************************)
(* Properties of handleQueue (checked under SpecSync and SpecSubmit).      *)
(***************************************************************************)
RowsOf(table, id) == {r \in table : r.raindropId = id}

\* The item has been through every stage: text, summary, cache pointer
\* without error, podcast episode.
Done(id) ==
    /\ \E b \in bookmarks : /\ b.raindropId = id
                            /\ b.textContent # NULL
                            /\ b.summary # NULL
    /\ \E c \in contentCache : c.raindropId = id /\ c.error = NULL
    /\ \E p \in podcastEpisodes : p.raindropId = id

BatchOver == hq.pc \in {"returned", "raised"}

\* No delivery of the message met a failing existence query, a store or
\* blob fault, or a handler that threw.
CleanTrail(m) ==
    \A k \in 1..Len(m.trail) :
        /\ m.trail[k].checkOk
        /\ m.trail[k].threw \in ExternalOps \cup {"none"}
        /\ m.trail[k].mark # "none"

\* HQMessage has just run for hq.batch[hq.i]
MessageStep ==
    /\ hq.pc = "loop"
    /\ Len(hq'.entries) = Len(hq.entries) + 1

LastEntry(h) == h.entries[Len(h.entries)]

\* C2 (as claimed): a message emitted by addBookmarks, for which no
\* extractor or AI call fails and no store or blob write fails, has after
\* its batch exactly one bookmarks row, one content_cache row and one
\* podcast_episodes row for its raindropId.
C2_AcceptedUrlIsEnriched ==
    \A m \in finished :
        (/\ m.origin = "add"
         /\ fate[m.link].kind \in {"unknown", "ok"}
         /\ \A k \in 1..Len(m.trail) : m.trail[k].threw = "none")
        => /\ Cardinality(RowsOf(bookmarks, m.raindropId)) = 1
           /\ Cardinality(RowsOf(contentCache, m.raindropId)) = 1
           /\ Cardinality(RowsOf(podcastEpisodes, m.raindropId)) = 1

\* C3 (as claimed): a message whose link makes an extractor or AI call throw
\* every time has left the queue after exactly 3 deliveries, marked retry,
\* retry, ack, and its content_cache row carries an error.
C3_PoisonMessageThreeDeliveries ==
    \A m \in finished :
        (fate[m.link].kind = "always" /\ CleanTrail(m))
        => /\ Len(m.trail) = MAX_QUEUE_ATTEMPTS
           /\ \A k \in 1..Len(m.trail) :
                m.trail[k].mark = IF k < MAX_QUEUE_ATTEMPTS THEN "retry" ELSE "ack"
           /\ \E c \in contentCache : c.raindropId = m.raindropId /\ c.error # NULL

\* C4 (as claimed): whenever handleQueue is over it has returned, not
\* thrown, and every message of the batch has been marked ack or retry.
C4_HandleQueueNeverRaises ==
    BatchOver =>
      /\ hq.pc = "returned"
      /\ Len(hq.entries) = Len(hq.batch)
      /\ \A k \in 1..Len(hq.entries) : hq.entries[k].mark \in {"ack", "retry"}

\* C5 (as claimed): when the processing of one message of a batch throws,
\* every other message of the batch has its own mark when the handler is
\* over, and the step that threw has changed no row of another raindropId.
C5_SiblingsProcessed ==
    BatchOver =>
      \A k \in 1..Len(hq.entries) :
          hq.entries[k].threw # "none" =>
            \A j \in 1..Len(hq.batch) :
                j # k => /\ j <= Len(hq.entries)
                         /\ hq.entries[j].mark \in {"ack", "retry"}

C5_OtherRowsUntouched ==
    (MessageStep /\ LastEntry(hq').threw # "none") =>
      LET id == hq.batch[hq.i].raindropId
      IN  /\ {b \in bookmarks' : b.raindropId # id} = {b \in bookmarks : b.raindropId # id}
          /\ {c \in contentCache' : c.raindropId # id}
                = {c \in contentCache : c.raindropId # id}
          /\ {e \in podcastEpisodes' : e.raindropId # id}
                = {e \in podcastEpisodes : e.raindropId # id}

C5_FailureIsIsolated == [](C5_SiblingsProcessed) /\ [][C5_OtherRowsUntouched]_vars

C8_TransientFailureReachesDone ==
    \A m \in finished :
        (/\ fate[m.link].kind = "once"
         /\ CleanTrail(m)
         /\ Len(m.trail) >= 1 /\ m.trail[1].threw # "none")
        => /\ \A k \in 1..Len(m.trail) :
                m.trail[k].mark = "retry" =>
                    k < Len(m.trail) /\ m.trail[k + 1].ops # <<>>
           /\ Done(m.raindropId)

(***************************************************************************)
(* Further properties of addBookmarks (checked under SpecIngest).          *)
(***************************************************************************)
NormalizedInputs == {normalizeUrl(add.urls[i]) : i \in 1..Len(add.urls)}

\* the first-seen candidates the existence query of the call has found
FoundInStore ==
    {u \in Range(UniqueFrom(add.urls, 1, <<>>)) : add.checkOk /\ u \in add.storedAtCheck}

\* C11: in every returned call, processed is the length of items and the
\* number of messages the call has put on the queue, skipped is the number
\* of first-seen candidates the existence query found in the store, and
\* processed + skipped is at most the number of distinct normalized inputs,
\* with equality exactly when no insert and no send threw.
C11_CountsAreAccurate ==
    AddDone =>
      /\ add.result.processed = Len(add.result.items)
      /\ add.result.processed = Cardinality(QueuedByCall)
      /\ add.result.processed = Len(add.sent)
      /\ add.result.skipped = Cardinality(FoundInStore)
      /\ add.result.processed + add.result.skipped <= Cardinality(NormalizedInputs)
      /\ (add.result.processed + add.result.skipped = Cardinality(NormalizedInputs))
            <=> (add.threw = <<>>)

\* one URL skipped, one processed, one failed in the same call
C11_Witness ==
    /\ AddDone
    /\ add.result.processed = 1
    /\ add.result.skipped = 1
    /\ Len(add.threw) = 1
    /\ Cardinality(NormalizedInputs) = 3

\* C12 (as claimed): in every returned call whose existence query threw, a
\* candidate whose URL was stored when the call started has had no further
\* row inserted for that URL, no message sent for it, and is not in items.
C12_StoredUrlRejectedAtInsert ==
    (AddDone /\ add.queried /\ ~add.checkOk) =>
      \A u \in add.storedAtCheck :
          /\ \A b \in InsertedByCall : b.url # u
          /\ \A k \in QueuedByCall : queue[k].link # u
          /\ u \notin ItemLinks
          /\ Cardinality({b \in bookmarks : b.url = u}) = 1

\* a step that enters addBookmarks with the empty list
EmptyCallStep == add.pc # "loop" /\ add' # add /\ add'.urls = <<>>

\* C13: a call of addBookmarks with the empty list returns
\* {success: true, processed: 0, skipped: 0, items: []} having issued no
\* query, no insert and no send: no table, blob store or queue changes.
C13_EmptyCallTouchesNothing ==
    [][EmptyCallStep =>
         /\ add'.pc = "done"
         /\ add'.result = [success |-> TRUE, processed |-> 0, skipped |-> 0,
                           items |-> <<>>]
         /\ ~add'.queried
         /\ add'.tried = <<>> /\ add'.sendTried = <<>>
         /\ UNCHANGED <<storeVars, queue>>]_vars

\* the empty list has been submitted to a store that holds rows
C13_Witness ==
    /\ AddDone
    /\ add.urls = <<>>
    /\ add.result.success /\ add.result.processed = 0 /\ add.result.skipped = 0
    /\ ~add.queried
    /\ bookmarks # {}

\* position of the first occurrence of the string u in the input
FirstIndex(u) ==
    CHOOSE i \in 1..Len(add.urls) :
        add.urls[i] = u /\ \A j \in 1..(i - 1) : add.urls[j] # u

\* u is an input string that no earlier input shares its normalized form with
IsFirstOriginal(u) ==
    \E i \in 1..Len(add.urls) :
        /\ add.urls[i] = u
        /\ \A j \in 1..(i - 1) : normalizeUrl(add.urls[j]) # normalizeUrl(u)

\* C14: in every returned call, the url of each row the call inserted and
\* the link of each message it sent is the first-occurring original string
\* among the inputs of its normalized form, and items lists the surviving
\* URLs in the order of their first occurrence in the input.
C14_FirstSeenOriginalIsKept ==
    AddDone =>
      /\ \A b \in InsertedByCall : IsFirstOriginal(b.url)
      /\ \A k \in QueuedByCall : IsFirstOriginal(queue[k].link)
      /\ \A k \in 1..Len(add.result.items) : IsFirstOriginal(add.result.items[k].link)
      /\ \A k, l \in 1..Len(add.result.items) :
           k < l => FirstIndex(add.result.items[k].link)
                      < FirstIndex(add.result.items[l].link)

\* an un-normalized string came first, its variant later, and two URLs
\* survived
C14_Witness ==
    /\ AddDone
    /\ Len(add.result.items) = 2
    /\ \E i, j \in 1..Len(add.urls) :
         /\ i < j
         /\ add.urls[i] # add.urls[j]
         /\ normalizeUrl(add.urls[i]) = normalizeUrl(add.urls[j])
         /\ normalizeUrl(add.urls[i]) # add.urls[i]
         /\ add.result.items[1].link = add.urls[i]
         /\ \E b \in InsertedByCall : b.url = add.urls[i]
         /\ \E k \in QueuedByCall : queue[k].link = add.urls[i]

\* C16: in every returned call, an input that does not parse as a URL has
\* been normalized to itself, letter case included, the call returns
\* success: true, and that input has been a candidate of its own: skipped
\* when the existence query found it, attempted otherwise.
C16_UnparseableInputIsKept ==
    AddDone =>
      \A i \in 1..Len(add.urls) :
          ~add.urls[i].valid =>
            /\ normalizeUrl(add.urls[i]) = add.urls[i]
            /\ add.result.success
            /\ add.urls[i] \in Range(add.uniqueUrls)
            /\ IF add.urls[i] \in add.existingUrls
               THEN add.urls[i] \in Range(add.skipped)
               ELSE add.urls[i] \in Range(add.tried)

\* an unparseable string with upper-case letters was inserted and enqueued
\* as it was given
C16_Witness ==
    /\ AddDone
    /\ \E i \in 1..Len(add.urls) :
         /\ ~add.urls[i].valid
         /\ add.urls[i].upper
         /\ add.urls[i] \in ItemLinks
         /\ \E b \in InsertedByCall : b.url = add.urls[i]

(***************************************************************************)
(* normalizeUrl on its own: two parseable strings are drawn, then          *)
(* normalized.                                                             *)
(***************************************************************************)
ParseableStrings ==
    {Str(TRUE, upper, scheme, port, name, slashes, query, frag) :
        upper \in BOOLEAN, scheme \in {"http", "https"}, port \in {"", "80", "443"},
        name \in {"", "p"}, slashes \in 0..MaxSlashes,
        query \in {"", "x=a", "x=A"}, frag \in {"", "s"}}

InitNormalize ==
    /\ InitSystem
    /\ pure \in {[fn |-> "normalizeUrl", pc |-> "input", a |-> a, b |-> b,
                  na |-> a, nb |-> b] : a, b \in ParseableStrings}

NormalizeCall ==
    /\ pure.fn = "normalizeUrl"
    /\ pure.pc = "input"
    /\ pure' = [pure EXCEPT !.pc = "output",
                            !.na = normalizeUrl(pure.a),
                            !.nb = normalizeUrl(pure.b)]
    /\ UNCHANGED <<storeVars, queue, add, hq, fate, finished, counts, fetch, remote, other>>

SpecNormalize == InitNormalize /\ [][NormalizeCall]_vars

\* a and b differ at most in letter case, in one trailing slash of a
\* non-root path (one has none, the other has one), or in an explicit
\* default port
DifferOnlyInListedWays(a, b) ==
    LET la == toLowerCase(a)
        lb == toLowerCase(b)
    IN  /\ la.scheme = lb.scheme /\ la.name = lb.name
        /\ la.query = lb.query /\ la.frag = lb.frag
        /\ \/ la.port = lb.port
           \/ {la.port, lb.port} = {"", DefaultPort(la.scheme)}
        /\ \/ la.slashes = lb.slashes
           \/ (la.name # "" /\ {la.slashes, lb.slashes} = {0, 1})

\* C15 (as claimed): two parseable URLs have the same normalized string
\* exactly when they differ only in letter case, in one trailing slash of a
\* non-root path or in an explicit default port, and two URLs whose query
\* strings or fragments differ never have the same normalized string.
C15_NormalizationClasses ==
    (pure.fn = "normalizeUrl" /\ pure.pc = "output") =>
      /\ (pure.na = pure.nb) <=> DifferOnlyInListedWays(pure.a, pure.b)
      /\ (pure.a.query # pure.b.query \/ pure.a.frag # pure.b.frag)
            => pure.na # pure.nb

(***************************************************************************)
(* chunkText on its own: a text length, a size and an overlap are drawn,   *)
(* then the loop runs one iteration per step.                              *)
(***************************************************************************)
ChunkInputs ==
    ((0..MaxTextLen) \X (0..MaxChunkSize) \X (0..MaxChunkOverlap))
        \cup {<<3000, DefaultChunkSize, DefaultChunkOverlap>>}

InitChunk ==
    /\ InitSystem
    /\ pure \in {ChunkStart(in[1], in[2], in[3]) : in \in ChunkInputs}

ChunkStep ==
    /\ pure.fn = "chunkText"
    /\ pure.pc = "loop"
    /\ pure' = ChunkIter(pure)
    /\ UNCHANGED <<storeVars, queue, add, hq, fate, finished, counts, fetch, remote, other>>

SpecChunk == InitChunk /\ [][ChunkStep]_vars

\* a loop that is entered keeps running
SpecChunkFair == SpecChunk /\ WF_vars(ChunkStep)

ChunkReturned == pure.fn = "chunkText" /\ pure.pc = "returned"

\* C17 (as claimed): when chunkText has returned for size > overlap, chunk k
\* (from 0) starts at k*(size-overlap), every chunk but the last has length
\* size and the last chunk ends where the text ends; a text of 3000
\* characters with size 1200 and overlap 200 gives 3 chunks.
C17_ChunksAreStrided ==
    (ChunkReturned /\ pure.size > pure.overlap) =>
      LET n == Len(pure.chunks)
      IN  /\ \A k \in 1..n :
               /\ pure.chunks[k].start = (k - 1) * (pure.size - pure.overlap)
               /\ k < n => pure.chunks[k].end - pure.chunks[k].start = pure.size
          /\ n >= 1 => pure.chunks[n].end = pure.len
          /\ (pure.len = 3000 /\ pure.size = 1200 /\ pure.overlap = 200) => n = 3

\* C18: chunkText returns for every text, size and overlap, and the start
\* offset is strictly larger after every iteration that continues the loop.
C18_ChunkTextTerminates ==
    /\ <>(pure.pc = "returned")
    /\ [][(pure.pc = "loop" /\ pure'.pc = "loop") => pure'.start > pure.start]_vars

\* chunkText has returned for a text shorter than the overlap, with the
\* overlap at least the size
C18_Witness ==
    /\ ChunkReturned
    /\ pure.overlap >= pure.size
    /\ pure.len > 0 /\ pure.len < pure.overlap
    /\ Len(pure.chunks) >= 1

(***************************************************************************)
(* Further properties of handleQueue.                                      *)
(***************************************************************************)
\* HQMessage has just run the catch block for hq.batch[hq.i] and marked it
FailureHandled ==
    /\ MessageStep
    /\ LastEntry(hq').threw # "none"
    /\ LastEntry(hq').mark \in {"retry", "ack"}

UniqueById(table) ==
    \A r1, r2 \in table : r1.raindropId = r2.raindropId => r1 = r2

C21_ReturnedIdsAreFresh ==
    AddDone =>
      /\ \A k, l \in 1..Len(add.result.items) :
           k # l => add.result.items[k].id # add.result.items[l].id
      /\ \A k \in 1..Len(add.result.items) :
           add.result.items[k].id \notin add.idsAtStart

\* a call on a store that held a row returned an item while another of its
\* URLs was refused
C21_Witness ==
    /\ AddDone
    /\ add.idsAtStart # {}
    /\ Len(add.result.items) >= 1
    /\ Len(add.threw) >= 1

\* C22: in every returned call, for each item there is exactly one row with
\* the item's id, whose url and title are the URL and whose summary and
\* textContent are null, and exactly one message of the queue with that
\* raindropId, whose link and title are the URL and which has a created
\* timestamp.
C22_PlaceholderAndMessage ==
    AddDone =>
      \A k \in 1..Len(add.result.items) :
          LET it   == add.result.items[k]
              rows == RowsOf(bookmarks, it.id)
              msgs == {j \in 1..Len(queue) : queue[j].raindropId = it.id}
          IN  /\ Cardinality(rows) = 1
              /\ \A b \in rows : /\ b.url = it.link
                                 /\ b.title = <<"url", it.link>>
                                 /\ b.summary = NULL
                                 /\ b.textContent = NULL
              /\ Cardinality(msgs) = 1
              /\ \A j \in msgs : /\ queue[j].link = it.link
                                 /\ queue[j].title = <<"url", it.link>>
                                 /\ queue[j].created = "now"

\* a call has processed two URLs
C22_Witness ==
    /\ AddDone
    /\ Len(add.result.items) = 2
    /\ add.result.items[1].link # add.result.items[2].link
    /\ Len(queue) >= 2

(***************************************************************************)
(* The periodic sync observed alone: the service holds any number of       *)
(* items and gains new ones, URLs are submitted directly, cycles run.      *)
(***************************************************************************)
\* The service holds nothing, a couple of items, or more than one cycle may
\* queue.
InitialRemote == {0, 2, MAX_QUEUE_ITEMS + 1}

\* The store is empty, or holds the row an earlier addBookmarks call left for
\* a page the service lists too.
InitialStore == {{}, {Placeholder(1, UPage)}}

InitCycle ==
    /\ bookmarks \in InitialStore
    /\ contentCache = {}
    /\ podcastEpisodes = {}
    /\ syncLog = <<>>
    /\ htmlCache = {}
    /\ podcastBucket = {}
    /\ vectors = {}
    /\ queue = <<>>
    /\ add = AddIdle
    /\ other = AddIdle
    /\ hq = HqIdle
    /\ fate = [l \in Links |-> FateUnknown]
    /\ finished = {}
    /\ counts = [given |-> 0, syncs |-> 0, batches |-> 0, faults |-> 0,
                 queries |-> 0, grown |-> 0, manual |-> 0, threw |-> "none"]
    /\ pure = PureIdle
    /\ fetch = FetchIdle
    /\ remote \in {ListedItems(n) : n \in InitialRemote}

\* a bookmark is added on the service
RemoteGrows ==
    /\ counts.grown < MaxGrowth
    /\ counts' = [counts EXCEPT !.grown = @ + 1]
    /\ remote' = <<RemoteItem(Len(remote) + 1)>> \o remote
    /\ UNCHANGED <<storeVars, queue, add, hq, fate, finished, pure, fetch, other>>

Cycle == ScheduledUpTo(MaxCycles)

NextCycle ==
    \/ Cycle
    \/ RemoteGrows

SpecCycle == InitCycle /\ [][NextCycle]_vars

\* a step that is one run of scheduled
CycleStep == counts'.syncs = counts.syncs + 1

\* what the poll of that run returned
Polled == listBookmarks(getLastSync(syncLog))

\* the messages that run has put on the queue
SentBy(q, q2) == SubSeq(q2, Len(q) + 1, Len(q2))

\* C23: one run of scheduled puts at most 10 messages on the queue, and each
\* of them carries the _id, link, title and created of one item the poll
\* returned.
C23_CycleSendsAtMostTen ==
    [][CycleStep =>
         LET sent == SentBy(queue, queue')
         IN  /\ Len(sent) <= MAX_QUEUE_ITEMS
             /\ \A k \in 1..Len(sent) :
                  \E j \in 1..Len(Polled) :
                      /\ sent[k].raindropId = Polled[j]._id
                      /\ sent[k].link = Polled[j].link
                      /\ sent[k].title = Polled[j].title
                      /\ sent[k].created = Polled[j].created]_vars

\* the service held more than 10 new items and the first cycle has queued 10
C23_Witness ==
    /\ counts.syncs = 1
    /\ Len(syncLog) = 1
    /\ Len(remote) > MAX_QUEUE_ITEMS
    /\ bookmarks = {}
    /\ Len(queue) = MAX_QUEUE_ITEMS
    /\ \A k \in 1..Len(queue) : queue[k].origin = "sync"

\* the row with the greatest id
LatestRow == IF Len(syncLog) = 0 THEN Undefined ELSE syncLog[Len(syncLog)]

\* a run of scheduled that appends a row
CycleAppends == CycleStep /\ Len(syncLog') = Len(syncLog) + 1

\* the items of the service created after the latest row, most recent first
NewOnService ==
    SelectSeq(remote, LAMBDA it : TsRank(it.created) > TsRank(LatestRow))

\* C24 (as stated): the row a cycle appends holds the creation timestamp of
\* the most recent item that cycle queued.
C24_AppendedIsLastQueued ==
    [][CycleAppends /\ Len(SentBy(queue, queue')) > 0 =>
         syncLog'[Len(syncLog')] = SentBy(queue, queue')[1].created]_vars

\* C24 (amended): no step updates or deletes a row of the sync log; a cycle
\* reads the row with the greatest id, so every message it sends is for an
\* item created after that row; and the row a cycle appends holds the
\* creation timestamp of the most recent item its poll returned, queued or
\* dropped as already stored.
C24_SyncLogAppendOnly ==
    [][/\ Len(syncLog') >= Len(syncLog)
       /\ SubSeq(syncLog', 1, Len(syncLog)) = syncLog
       /\ CycleStep =>
             \A k \in 1..Len(SentBy(queue, queue')) :
                 TsRank(SentBy(queue, queue')[k].created) > TsRank(LatestRow)
       /\ CycleAppends =>
             /\ Len(NewOnService) > 0
             /\ syncLog'[Len(syncLog')] = NewOnService[1].created]_vars

\* three cycles have each appended a row, the first past a stored page
C24_Witness ==
    /\ Len(syncLog) = 3
    /\ bookmarks # {}
    /\ syncLog[1] = <<"t", 2>>
    /\ Len(queue) = 3
    /\ \A k \in 1..Len(queue) : queue[k].link # UPage

\* C25: a run of scheduled sends no message for a returned item whose link
\* is the url of a stored bookmark, and it issues at most one existence query
\* however many items were returned.
C25_StoredLinksAreDropped ==
    [][CycleStep =>
         /\ \A k \in 1..Len(SentBy(queue, queue')) :
                SentBy(queue, queue')[k].link \notin StoredUrls
         /\ counts'.queries <= counts.queries + 1]_vars

\* one cycle polled a stored page among several items and asked once
C25_Witness ==
    /\ counts.syncs = 1
    /\ counts.queries = 1
    /\ UPage \in StoredUrls
    /\ \E j \in 1..Len(remote) : remote[j].link = UPage
    /\ Len(remote) > MAX_QUEUE_ITEMS
    /\ Len(syncLog) = 1
    /\ Len(queue) = MAX_QUEUE_ITEMS
    /\ \A k \in 1..Len(queue) : queue[k].link # UPage

(***************************************************************************)
(* RaindropClient.fetchWithRateLimit: one page request, observed alone.    *)
(* The clock is Date.now() in milliseconds; X-RateLimit-Reset is in        *)
(* seconds.                                                                *)
(***************************************************************************)
MsPerSecond == 1000

ClockReadings == {t * MsPerSecond : t \in 0..MaxClock}

\* response.headers.get("X-RateLimit-Reset"): absent (null or ""), a number,
\* or text that Number() turns into NaN
ResetHeaders ==
    {[present |-> FALSE, numeric |-> FALSE, value |-> 0],
     [present |-> TRUE, numeric |-> FALSE, value |-> 0]}
    \cup {[present |-> TRUE, numeric |-> TRUE, value |-> t] : t \in 0..MaxClock}

Statuses == {200, 429, 500}

\* response.ok
Ok(status) == status >= 200 /\ status <= 299

\* Math.max(Number(reset) * 1000 - Date.now(), 0); with NaN the test
\* delayMs > 0 is false, which 0 stands for
DelayMsNone(reset, now) == 0

DelayMs(reset, now) ==
    IF reset.numeric THEN Max(reset.value * MsPerSecond - now, 0) ELSE 0

\* response.status === 429 with a reset header
RateLimited(answer) == answer.status = 429 /\ answer.reset.present

LastAnswer == fetch.requests[Len(fetch.requests)]

InitFetch ==
    /\ InitStores
    /\ pure = PureIdle
    /\ remote = RemoteItems
    /\ fetch \in {[pc |-> "start", now |-> t, requests |-> <<>>, result |-> "none"] :
                    t \in ClockReadings}

\* doFetch(): the request leaves at fetch.now and is answered at a later
\* reading
DoFetch(nextPc) ==
    \E status \in Statuses, reset \in ResetHeaders, t \in ClockReadings :
        /\ t >= fetch.now
        /\ fetch' = [fetch EXCEPT
                        !.pc = nextPc,
                        !.now = t,
                        !.requests = Append(@, [at |-> fetch.now, status |-> status,
                                                reset |-> reset])]

\* let response = await doFetch()
FirstFetch ==
    /\ fetch.pc = "start"
    /\ DoFetch("answered")
    /\ UNCHANGED <<storeVars, queue, add, hq, fate, finished, counts, pure, remote, other>>

\* await new Promise((resolve) => setTimeout(resolve, delayMs))
Sleep ==
    /\ fetch.pc = "answered"
    /\ RateLimited(LastAnswer)
    /\ DelayMs(LastAnswer.reset, fetch.now) > 0
    /\ \E t \in ClockReadings :
          /\ t >= fetch.now + DelayMs(LastAnswer.reset, fetch.now)
          /\ fetch' = [fetch EXCEPT !.pc = "slept", !.now = t]
    /\ UNCHANGED <<storeVars, queue, add, hq, fate, finished, counts, pure, remote, other>>

\* response = await doFetch()
RetryFetch ==
    /\ \/ fetch.pc = "slept"
       \/ /\ fetch.pc = "answered"
          /\ RateLimited(LastAnswer)
          /\ DelayMs(LastAnswer.reset, fetch.now) <= 0
    /\ DoFetch("retried")
    /\ UNCHANGED <<storeVars, queue, add, hq, fate, finished, counts, pure, remote, other>>

\* if (!response.ok) throw ...; return response
FinishFetch ==
    /\ \/ fetch.pc = "retried"
       \/ fetch.pc = "answered" /\ ~RateLimited(LastAnswer)
    /\ fetch' = [fetch EXCEPT !.pc = "done",
                              !.result = IF Ok(LastAnswer.status) THEN "returned"
                                         ELSE "thrown"]
    /\ UNCHANGED <<storeVars, queue, add, hq, fate, finished, counts, pure, remote, other>>

NextFetch ==
    \/ FirstFetch
    \/ Sleep
    \/ RetryFetch
    \/ FinishFetch

SpecFetch == InitFetch /\ [][NextFetch]_vars

\* C26: a page is requested at most twice; a second request is made only
\* after a 429 answer with a reset header, and when that header is a time the
\* second request does not leave before it; a finished call has retried
\* exactly once after such an answer and not at all otherwise, and it throws
\* exactly when its last answer is not ok.
C26_RateLimitRetriedOnce ==
    /\ Len(fetch.requests) <= 2
    /\ Len(fetch.requests) = 2 =>
          /\ RateLimited(fetch.requests[1])
          /\ fetch.requests[1].reset.numeric =>
                fetch.requests[2].at >= fetch.requests[1].reset.value * MsPerSecond
    /\ fetch.pc = "done" =>
          /\ Len(fetch.requests) = (IF RateLimited(fetch.requests[1]) THEN 2 ELSE 1)
          /\ (fetch.result = "thrown") = ~Ok(LastAnswer.status)
          /\ (fetch.result = "returned") = Ok(LastAnswer.status)

\* a 429 whose reset time lay ahead was waited out and the retry succeeded
C26_Witness ==
    /\ fetch.pc = "done"
    /\ Len(fetch.requests) = 2
    /\ fetch.requests[1].status = 429
    /\ fetch.requests[1].reset.numeric
    /\ fetch.requests[1].reset.value * MsPerSecond > fetch.requests[1].at
    /\ fetch.requests[2].status = 200
    /\ fetch.result = "returned"

\* await b is not among the awaits issued, or await a was issued before it
Precedes(ops, a, b) ==
    \A j \in 1..Len(ops) :
        ops[j] = b => \E i \in 1..(j - 1) : ops[i] = a

\* the try block ran to message.ack()
SuccessAck(e) == e.mark = "ack" /\ e.threw = "none" /\ Len(e.ops) > 0

\* C27: in the processing of one message the summarizer is invoked only
\* after the bookmarks and content_cache upserts of extraction, embeddings
\* are generated only after the summary update, audio is synthesized only
\* after the vector upsert, and the success ack comes only after the
\* podcast_episodes upsert; each of those writes is in the store when the
\* later stage has been started.
C27_StagesRunInOrder ==
    [][MessageStep =>
         LET e  == LastEntry(hq')
             id == hq.batch[hq.i].raindropId
         IN  /\ Precedes(e.ops, "extract", "bookmarkUpsert")
             /\ Precedes(e.ops, "bookmarkUpsert", "summarize")
             /\ Precedes(e.ops, "cacheUpsert", "summarize")
             /\ Precedes(e.ops, "summarize", "summaryUpdate")
             /\ Precedes(e.ops, "summaryUpdate", "embed")
             /\ Precedes(e.ops, "embed", "vectorUpsert")
             /\ Precedes(e.ops, "vectorUpsert", "synthesize")
             /\ Precedes(e.ops, "synthesize", "podcastUpsert")
             /\ SuccessAck(e) => e.ops[Len(e.ops)] = "podcastUpsert"
             /\ "summarize" \in Range(e.ops) =>
                   /\ \E b \in RowsOf(bookmarks', id) : b.textContent # NULL
                   /\ RowsOf(contentCache', id) # {}
             /\ "embed" \in Range(e.ops) =>
                   \E b \in RowsOf(bookmarks', id) : b.summary # NULL
             /\ "synthesize" \in Range(e.ops) => <<id, 0>> \in vectors'
             /\ SuccessAck(e) => RowsOf(podcastEpisodes', id) # {}]_vars

\* one message went through every stage and was acknowledged, another
\* stopped at the synthesizer
C27_Witness ==
    /\ \E m \in finished :
          /\ Len(m.trail) > 0
          /\ SuccessAck(m.trail[Len(m.trail)])
          /\ Len(m.trail[Len(m.trail)].ops) = Len(Pipeline)
    /\ \E k \in 1..Len(hq.entries) :
          /\ hq.entries[k].threw = "synthesize"
          /\ "vectorUpsert" \in Range(hq.entries[k].ops)

\* C28: when a message is acknowledged at the end of the try block, the
\* store holds for its raindropId a bookmarks row with text and summary, one
\* content_cache row with error = null and htmlKvKey = html:{id} whose blob
\* is in the HTML cache, and a podcast_episodes row with audioKey =
\* podcast/{id}.mp3 whose blob is in the bucket.
C28_SuccessAckMeansComplete ==
    [][(MessageStep /\ SuccessAck(LastEntry(hq'))) =>
         LET id == hq.batch[hq.i].raindropId
         IN  /\ \E b \in RowsOf(bookmarks', id) :
                   b.textContent # NULL /\ b.summary # NULL
             /\ RowsOf(contentCache', id) # {}
             /\ \A c \in RowsOf(contentCache', id) :
                   /\ c.error = NULL
                   /\ c.htmlKvKey = <<"html", id>>
                   /\ c.htmlKvKey \in htmlCache'
             /\ RowsOf(podcastEpisodes', id) # {}
             /\ \A p \in RowsOf(podcastEpisodes', id) :
                   /\ p.audioKey = <<"podcast", id>>
                   /\ p.audioKey \in podcastBucket']_vars

\* a message failed at the extractor, which recorded an error, and was
\* acknowledged at the end of its second delivery with the error cleared
C28_Witness ==
    \E m \in finished :
        /\ Len(m.trail) = 2
        /\ m.trail[1].threw = "extract"
        /\ "errorUpsert" \in Range(m.trail[1].ops)
        /\ SuccessAck(m.trail[2])
        /\ \A c \in RowsOf(contentCache, m.raindropId) : c.error = NULL
        /\ Done(m.raindropId)

\* C29: when the screenshot step of a message produces no image, the error
\* does not leave the step: the summarizer is invoked next, the message is
\* acknowledged with all its records unless a later await throws, any retry
\* and any error in its content_cache row name that later await, and the
\* coverImage of its bookmarks row is what it was before.
C29_ScreenshotFailureIsSwallowed ==
    [][(MessageStep /\ LastEntry(hq').shot = "failed") =>
         LET e  == LastEntry(hq')
             id == hq.batch[hq.i].raindropId
         IN  /\ e.threw # "screenshot"
             /\ "summarize" \in Range(e.ops)
             /\ \A c \in RowsOf(contentCache', id) : c.error # "screenshot"
             /\ e.mark = "retry" => e.threw \in ExternalOps \cup InfraOps
             /\ e.threw = "none" =>
                   /\ SuccessAck(e)
                   /\ Len(e.ops) = Len(Pipeline)
                   /\ \E b \in RowsOf(bookmarks', id) :
                         b.textContent # NULL /\ b.summary # NULL
                   /\ RowsOf(podcastEpisodes', id) # {}
             /\ \A b \in RowsOf(bookmarks', id) :
                   IF RowsOf(bookmarks, id) = {}
                   THEN b.coverImage = NULL
                   ELSE \E b0 \in RowsOf(bookmarks, id) :
                           b.coverImage = b0.coverImage]_vars

\* a message whose screenshot failed was acknowledged with every record but
\* the cover image
C29_Witness ==
    \E m \in finished :
        /\ Len(m.trail) > 0
        /\ m.trail[Len(m.trail)].shot = "failed"
        /\ SuccessAck(m.trail[Len(m.trail)])
        /\ Done(m.raindropId)
        /\ \A b \in RowsOf(bookmarks, m.raindropId) : b.coverImage = NULL

\* C30: when the summary carries a podcast script, that script is the one
\* synthesized and stored and generatePodcastScript is not called; when it
\* carries none, generatePodcastScript is called once and its script is the
\* one synthesized and stored.
C30_FallbackScriptOnlyWhenMissing ==
    [][MessageStep =>
         LET e  == LastEntry(hq')
             id == hq.batch[hq.i].raindropId
         IN  /\ e.summaryScript = "yes" =>
                   /\ e.script = "agent"
                   /\ SuccessAck(e) =>
                         \A p \in RowsOf(podcastEpisodes', id) : p.script = "agent"
             /\ e.summaryScript = "no" =>
                   /\ e.script = "fallback"
                   /\ SuccessAck(e) =>
                         \A p \in RowsOf(podcastEpisodes', id) : p.script = "fallback"]_vars

\* one acknowledged episode carries the summary's script, another the
\* generated one
C30_Witness ==
    \E m1, m2 \in finished :
        /\ Len(m1.trail) > 0 /\ Len(m2.trail) > 0
        /\ SuccessAck(m1.trail[Len(m1.trail)])
        /\ SuccessAck(m2.trail[Len(m2.trail)])
        /\ m1.trail[Len(m1.trail)].summaryScript = "yes"
        /\ m2.trail[Len(m2.trail)].summaryScript = "no"
        /\ \A p \in RowsOf(podcastEpisodes, m1.raindropId) : p.script = "agent"
        /\ \A p \in RowsOf(podcastEpisodes, m2.raindropId) : p.script = "fallback"
        /\ RowsOf(podcastEpisodes, m1.raindropId) # {}
        /\ RowsOf(podcastEpisodes, m2.raindropId) # {}

\* the vectors of one bookmark
VectorsOf(vs, id) == {v \in vs : v[1] = id}

\* the vector upsert of the message completed
Embedded(e) == "vectorUpsert" \in Range(e.ops) /\ e.threw # "vectorUpsert"

\* C31: when the vector upsert of a message has completed, the index holds
\* for its raindropId exactly the vectors 0 .. n-1 for the n chunks of its
\* text, each tagged with that raindropId and its chunk index; a second
\* enrichment of the same raindropId leaves that set as it was, and no
\* other bookmark's vectors change.
C31_OneVectorPerChunk ==
    [][(MessageStep /\ Embedded(LastEntry(hq'))) =>
         LET m == hq.batch[hq.i]
             n == PageChunks(m.link)
         IN  /\ Cardinality(VectorsOf(vectors', m.raindropId)) = n
             /\ \A k \in 0..(n - 1) : <<m.raindropId, k>> \in vectors'
             /\ VectorsOf(vectors, m.raindropId) # {} =>
                   VectorsOf(vectors', m.raindropId) = VectorsOf(vectors, m.raindropId)
             /\ vectors' \ VectorsOf(vectors', m.raindropId)
                   = vectors \ VectorsOf(vectors, m.raindropId)]_vars

\* a bookmark whose text makes two chunks was embedded in two deliveries
\* and has two vectors
C31_Witness ==
    \E m \in finished :
        /\ Len(m.trail) >= 2
        /\ Cardinality({k \in 1..Len(m.trail) : Embedded(m.trail[k])}) >= 2
        /\ PageChunks(m.link) = 2
        /\ Cardinality(VectorsOf(vectors, m.raindropId)) = 2

(***************************************************************************)
(* The manual sync route with the queue consumer.                          *)
(***************************************************************************)
PER_PAGE == 50

\* client.listBookmarks(undefined, 0, true): the first page, unfiltered
FirstPage == SubSeq(remote, 1, Min(PER_PAGE, Len(remote)))

\* The handler of syncRoute: every item of the first page is sent; a send
\* that throws ends the loop with the sends before it done.
SyncRoute ==
    /\ counts.manual < MaxManual
    /\ counts' = [counts EXCEPT !.manual = @ + 1]
    /\ \E sentOk \in 0..Len(FirstPage) :
          queue' = queue \o MapSync(SubSeq(FirstPage, 1, sentOk))
    /\ UNCHANGED <<storeVars, add, hq, fate, finished, pure, fetch, remote, other>>

InitManual ==
    /\ InitStores
    /\ pure = PureIdle
    /\ fetch = FetchIdle
    /\ remote \in {ListedItems(n) : n \in 1..2}

NextManual ==
    \/ SyncRoute
    \/ HQStart
    \/ HQMessage

SpecManual == InitManual /\ [][NextManual]_vars

\* an extractor or AI call was made for the message
Billed(e) == Range(e.ops) \cap ExternalOps # {}

\* C32 (as claimed): of two messages of one batch that carry the same link,
\* at most one has an extractor or AI call made for it.
C32_LinkEnrichedOncePerBatch ==
    \A i, j \in 1..Len(hq.entries) :
        (i < j /\ hq.batch[i].link = hq.batch[j].link)
        => ~(Billed(hq.entries[i]) /\ Billed(hq.entries[j]))

\* an iteration of step 3, in a call whose existence query worked, has
\* inserted a row
InsertAfterCheck ==
    /\ add.pc = "loop"
    /\ add.checkOk
    /\ bookmarks' # bookmarks

\* C34 (as claimed): a call whose existence query worked never inserts a
\* row whose url normalizes to the same string as the url of a row already
\* stored.
C34_NoRowsWithEqualNormalizedUrl ==
    [][InsertAfterCheck =>
         \A b \in bookmarks' \ bookmarks :
             \A b0 \in bookmarks : normalizeUrl(b0.url) # normalizeUrl(b.url)]_vars

\* C35 (as claimed): every row a returned call has inserted has a message
\* the call sent for the same raindropId and an entry of items.
C35_NoOrphanPlaceholder ==
    AddDone =>
      \A b \in InsertedByCall :
          /\ \E k \in 1..Len(add.sent) : add.sent[k].raindropId = b.raindropId
          /\ \E k \in QueuedByCall : queue[k].raindropId = b.raindropId
          /\ \E k \in 1..Len(add.result.items) :
                add.result.items[k].id = b.raindropId

\* the items of the service the checkpoint has passed
BehindCheckpoint ==
    {k \in 1..Len(remote) : TsRank(remote[k].created) <= TsRank(LatestRow)}

\* C36 (as claimed): the checkpoint never passes an item whose link the
\* store does not know and for which no message has been sent.
C36_NoItemIsLost ==
    \A k \in BehindCheckpoint :
        remote[k].link \notin StoredUrls
        => \E j \in 1..Len(queue) : queue[j].raindropId = remote[k]._id

\* C37: a cycle whose poll, existence query or send throws appends no row
\* to the sync log, so the latest row is the one the next cycle reads; a
\* cycle appends a row only when none of its awaits threw, its poll returned
\* at least one item and every message of its list has been sent.
C37_NoCheckpointAfterFailure ==
    [][CycleStep =>
         /\ counts'.threw \in {"poll", "query", "send"} =>
               /\ syncLog' = syncLog
               /\ getLastSync(syncLog') = getLastSync(syncLog)
         /\ Len(syncLog') > Len(syncLog) =>
               /\ counts'.threw = "none"
               /\ Len(Polled) > 0
               /\ SentBy(queue, queue')
                     = MapSync(Truncate(ValidItems(Polled, StoredUrls)))]_vars

\* a cycle threw after it had sent a message and left no checkpoint; the
\* next cycle polled the same items, sent that message again and appended
\* the first row
C37_Witness ==
    /\ counts.syncs = 2
    /\ counts.threw = "none"
    /\ Len(syncLog) = 1
    /\ \E i, j \in 1..Len(queue) :
          i < j /\ queue[i].raindropId = queue[j].raindropId

\* C38 (as claimed): normalizing the output of normalizeUrl again gives the
\* same string.
C38_NormalizeUrlIsIdempotent ==
    (pure.fn = "normalizeUrl" /\ pure.pc = "output") =>
        /\ normalizeUrl(pure.na) = pure.na
        /\ normalizeUrl(pure.nb) = pure.nb

\* ceil(a / b) for b > 0
CeilDiv(a, b) == (a + b - 1) \div b

\* C39 (as claimed): when chunkText has returned for size > overlap and a
\* non-empty text, every position of the text lies in a chunk, no chunk is
\* empty or longer than size, no chunk lies inside the chunk before it, and
\* there are ceil(max(length - overlap, 1) / (size - overlap)) chunks; for
\* the empty text there is no chunk.
C39_ChunksCoverWithoutRedundancy ==
    (ChunkReturned /\ pure.size > pure.overlap) =>
      LET n == Len(pure.chunks)
      IN  IF pure.len = 0 THEN n = 0
          ELSE /\ \A pos \in 0..(pure.len - 1) :
                    \E k \in 1..n :
                        pure.chunks[k].start <= pos /\ pos < pure.chunks[k].end
               /\ \A k \in 1..n :
                    /\ pure.chunks[k].end > pure.chunks[k].start
                    /\ pure.chunks[k].end - pure.chunks[k].start <= pure.size
               /\ \A k \in 2..n :
                    ~(/\ pure.chunks[k].start >= pure.chunks[k - 1].start
                      /\ pure.chunks[k].end <= pure.chunks[k - 1].end)
               /\ n = CeilDiv(Max(pure.len - pure.overlap, 1),
                              pure.size - pure.overlap)

(***************************************************************************)
(* Two calls of addBookmarks whose awaits interleave.                      *)
(***************************************************************************)
OtherStart(urls, limit) ==
    /\ other.pc \in {"idle", "done"}
    /\ counts.given + Len(urls) <= limit
    /\ counts' = [counts EXCEPT !.given = @ + Len(urls)]
    /\ AddStartOf(other', urls)
    /\ UNCHANGED <<storeVars, queue, hq, fate, finished, pure, fetch, remote, add>>

OtherSubmit ==
    \E urls \in SeqsUpTo(SubmittedUrls, MaxSubmitted) : OtherStart(urls, MaxSubmitted)

OtherUrl ==
    /\ AddUrlOf(other, other')
    /\ UNCHANGED <<contentCache, podcastEpisodes, syncLog, htmlCache,
                   podcastBucket, vectors, hq, fate, finished, counts, pure, fetch, remote, add>>

NextRace ==
    \/ Submit
    \/ AddUrl
    \/ OtherSubmit
    \/ OtherUrl

SpecRace == Init /\ [][NextRace]_vars

\* C33 (as claimed): two calls that were each given the same new URL and
\* whose existence queries both worked have together created at most one
\* row for it and sent at most one message for it.
C33_ConcurrentCallsCreateOneRow ==
    (/\ add.queried /\ add.checkOk
     /\ other.queried /\ other.checkOk)
    => \A u \in SubmittedUrls :
          /\ Cardinality({b \in bookmarks : b.url = u}) <= 1
          /\ Cardinality({k \in 1..Len(queue) : queue[k].link = u}) <= 1

====
